---- MODULE Spec2Model ----
(***************************************************************************)
(* A model of src/index.ts: the kline alert bot.  One action per handler   *)
(* (timer callback, WebSocket event handler, step of main), each taken     *)
(* atomically, as the single-threaded event loop runs them.                *)
(*                                                                         *)
(* Numbers.  Prices are JS numbers parsed from strings; the model keeps a  *)
(* parsed price as an integer count of tenths (or NaN), and a percent      *)
(* change as the exact fraction num/den, so that comparisons with the      *)
(* threshold are decided exactly.                                          *)
(*                                                                         *)
(* Time.  Every pending timer carries the time left until it is due; the   *)
(* action Elapse lets TimeStep ms pass for all of them at once.  A timer   *)
(* callback may run once its time left is 0, and may run late.             *)
(***************************************************************************)
EXTENDS Integers, Sequences, FiniteSets, TLC

(***************************************************************************)
(* Bounds of the model.                                                    *)
(***************************************************************************)
\* sockets one group may have alive at once before the model stops
MaxSockets == 2
\* close events in a row, without an open, that the environment delivers
MaxCloses == 7
\* scheduled removals pending at once
MaxTimers == 2
\* the history counters count 0, 1, ..., CountCap and stay there
CountCap == 2
\* ms that pass in one Elapse step
TimeStep == 300000
\* longest symbol list and largest batch size the partitioner is tried on
MaxLen == 4
MaxBatch == 4
\* deliveries in flight that are counted: MaxInflight stands for that many
\* or more
MaxInflight == 1

(***************************************************************************)
(* Constants of the program.                                               *)
(***************************************************************************)
PERCENT_THRESHOLD == 5
BATCH_SIZE == 1
RemovalDelayOneMinute == 60 * 1000
RemovalDelay == 600000
HousekeepingInterval == 600000
SizeCeiling == 20000
InitialBackoff == 1000
OpenBackoff == 1000
BackoffCeiling == 30000
StaggerDelay == 250

\* the symbol universe main() got from fetchSpotUSDT()
SYMBOLS == <<"BTCUSDT", "ETHUSDT">>

Min(a, b) == IF a <= b THEN a ELSE b
Abs(a) == IF a >= 0 THEN a ELSE -a

(***************************************************************************)
(* chunk(arr, size): the for loop, from i = 0 in steps of size, pushing    *)
(* arr.slice(i, i + size); slice stops at the end of the array.            *)
(***************************************************************************)
sliceOneShort(arr, from, to) == SubSeq(arr, from + 1, Min(to, Len(arr)) - 1)
slice(arr, from, to) == SubSeq(arr, from + 1, Min(to, Len(arr)))

RECURSIVE chunkLoop(_, _, _, _)
chunkLoop(arr, size, i, out) ==
    IF i < Len(arr)
    THEN chunkLoop(arr, size, i + size, Append(out, slice(arr, i, i + size)))
    ELSE out

chunk(arr, size) == chunkLoop(arr, size, 0, <<>>)

\* main(): batches = chunk(symbols, BATCH_SIZE); one WSGroup per batch
batches == chunk(SYMBOLS, BATCH_SIZE)
Groups == 1..Len(batches)
Slots == 1..MaxSockets

(***************************************************************************)
(* Messages.  A kline event carries s, k.t, k.o, k.c, k.x; a field that    *)
(* is missing reads as undefined.                                          *)
(***************************************************************************)
Undefined == "undefined"
MsgSymbols == {"BTCUSDT", Undefined}
MsgStarts == {300000}
\* (k.o, k.c) as the strings on the wire
PricePairs ==
    { <<"100", "105">>, <<"100", "104.9">>, <<"100", "94">>, <<"0", "105">>,
      <<"100", "">>, <<"abc", "105">>, <<"-100", "-110">> }
KlineEvents ==
    [s : MsgSymbols, t : MsgStarts, oc : PricePairs, x : {TRUE, FALSE}]
\* what JSON.parse and the test on msg.data make of a frame
Messages ==
    { [kind |-> "unparsable"], [kind |-> "nodata"], [kind |-> "nok"] }
    \cup { [kind |-> "kline", ev |-> e] : e \in KlineEvents }

\* CandleKey `${symbol}:${start}`: one key per (symbol, start) pair
CandleKey(symbol, start) == <<symbol, start>>
Keys == { CandleKey(s, t) : s \in MsgSymbols, t \in MsgStarts }

(***************************************************************************)
(* Number(str) on the strings above: tenths, or NaN.                       *)
(***************************************************************************)
NaN == [nan |-> TRUE, v |-> 0]
Num(v) == [nan |-> FALSE, v |-> v]
Number(str) ==
    CASE str = "100"   -> Num(1000)
      [] str = "105"   -> Num(1050)
      [] str = "104.9" -> Num(1049)
      [] str = "94"    -> Num(940)
      [] str = "0"     -> Num(0)
      [] str = ""      -> Num(0)
      [] str = "-100"  -> Num(-1000)
      [] str = "-110"  -> Num(-1100)
      [] OTHER         -> NaN

\* !n : NaN and 0 are falsy
Falsy(n) == n.nan \/ n.v = 0

\* the guard of handleKlineEvent: if (!open || !current) return
Rejected(open, current) == Falsy(open) \/ Falsy(current)

\* ((current - open) / open) * 100 as a fraction with a positive denominator
changePct(open, current) ==
    IF open.v > 0
    THEN [num |-> (current.v - open.v) * 100, den |-> open.v]
    ELSE [num |-> (open.v - current.v) * 100, den |-> -open.v]

\* Math.abs(changePct) >= PERCENT_THRESHOLD
CrossesThresholdStrictly(pct) == Abs(pct.num) > PERCENT_THRESHOLD * pct.den
CrossesThreshold(pct) == Abs(pct.num) >= PERCENT_THRESHOLD * pct.den

\* changePct >= 0 ? "up" : "down"
Direction(pct) == IF pct.num >= 0 THEN "up" ELSE "down"

\* p.toFixed(2): the sign of a negative p, and |p| rounded to hundredths
toFixed2(pct) ==
    [minus |-> pct.num < 0,
     hundredths |-> (Abs(pct.num) * 200 + pct.den) \div (2 * pct.den)]

\* formatPct(p): `${p >= 0 ? "+" : ""}${p.toFixed(2)}%`, kept as the
\* characters before the digits and the digits' value in hundredths
formatPctNoPlus(pct) ==
    [sign |-> IF toFixed2(pct).minus THEN "-" ELSE "",
     hundredths |-> toFixed2(pct).hundredths]
formatPct(pct) ==
    [sign |-> (IF pct.num >= 0 THEN "+" ELSE "")
                  \o (IF toFixed2(pct).minus THEN "-" ELSE ""),
     hundredths |-> toFixed2(pct).hundredths]

\* how a fetch() ends: a response with ok, a response without, a rejection
FetchOutcomes == {"ok", "not ok", "throws"}

\* the dedup test: if (alertedThisCandle.get(key)) return
AlreadyAlertedNever(registry, key) == FALSE
AlreadyAlerted(registry, key) == key \in registry

\* group.backoff = Math.min(group.backoff * 2, 30000)
NextBackoffUncapped(b) == b * 2
NextBackoff(b) == Min(b * 2, BackoffCeiling)

(***************************************************************************)
(* State.                                                                  *)
(***************************************************************************)
VARIABLES
    alertedThisCandle,  \* the keys the Map holds (each maps to true)
    otherEntries,       \* entries of the Map for keys outside Keys
    removals,           \* per key: time left of each pending delete timer
    inflight,           \* sendTelegram calls for alerts that have not settled
    sent,               \* the alert handed to sendTelegram by the last step
    console,            \* the line the last step logged
    group,              \* per group: ws handle (0 = null, else slot), backoff
    sockets,            \* per group and slot: readyState of the WebSocket
    sleeps,             \* per group: time left of each pending sleep(backoff)
    mainPc, mainIdx,    \* main(): position, and the group it starts next;
                        \* before main's loop mainPc is the position of the
                        \* module: "boot", "fetch", "notify", and at its
                        \* end "exit1" or "rejected"
    mainTimer,          \* time left of main's sleep(250)
    hkTimer,            \* time left to the next housekeeping tick, -1: not set
    watched,            \* the key whose history is kept (any key, fixed)
    alertsThisEntry,    \* history: alerts for watched since its entry was made
    alertsTotal,        \* history: alerts for watched
    closedSeen,         \* history: a window-closed update for watched was seen
    wiped,              \* history: the entry of watched was lost to a clear()
    blockedFor,         \* history: time left of the 10 minutes that follow
                        \* the last window-closed update that left watched
                        \* marked (0 again after a clear())
    blockedFirst,       \* history: the same, for the last such update that
                        \* found no removal of watched pending
    closes,             \* history: close events per group since the last open
    lastWait,           \* history: ms the last close of the group waits
    chunkIn, chunkOut   \* the partitioner's argument and result

trackerVars == <<alertedThisCandle, otherEntries, removals, inflight>>
trackerHist ==
    <<watched, alertsThisEntry, alertsTotal, closedSeen, wiped, blockedFor,
      blockedFirst>>
groupVars == <<group, sockets, sleeps>>
groupHist == <<closes, lastWait>>
mainVars == <<mainPc, mainIdx, mainTimer>>
chunkVars == <<chunkIn, chunkOut>>
vars == <<alertedThisCandle, otherEntries, removals, inflight, sent, console, group,
          sockets, sleeps, mainPc, mainIdx, mainTimer, hkTimer, watched,
          alertsThisEntry, alertsTotal, closedSeen, wiped, blockedFor,
          blockedFirst, closes, lastWait, chunkIn, chunkOut>>

NoAlert == [key |-> <<"", 0>>, symbol |-> "", direction |-> "",
            current |-> NaN, pct |-> [num |-> 0, den |-> 1],
            text |-> [sign |-> "", hundredths |-> 0]]
NoLog == ""

\* the 10 minutes the histories measure
TenMinutes == 10 * 60 * 1000

Inc(n) == IF n < CountCap THEN n + 1 ELSE n
Dec(rem, d) == IF rem > d THEN rem - d ELSE 0

RECURSIVE SumLen(_, _)
SumLen(f, S) ==
    IF S = {} THEN 0
    ELSE LET x == CHOOSE y \in S : TRUE IN Len(f[x]) + SumLen(f, S \ {x})
PendingRemovals == SumLen(removals, Keys)
MapSize == Cardinality(alertedThisCandle) + otherEntries

RemoveAt(seq, j) == SubSeq(seq, 1, j - 1) \o SubSeq(seq, j + 1, Len(seq))

InitTrackerVars ==
    /\ alertedThisCandle = {}
    /\ otherEntries = 0
    /\ removals = [k \in Keys |-> <<>>]
    /\ inflight = 0
    /\ sent = NoAlert
    /\ console = NoLog
    /\ watched \in Keys
    /\ alertsThisEntry = 0
    /\ alertsTotal = 0
    /\ closedSeen = FALSE
    /\ wiped = FALSE
    /\ blockedFor = 0
    /\ blockedFirst = 0

InitChunkVars ==
    /\ chunkIn = [arr |-> SYMBOLS, size |-> BATCH_SIZE]
    /\ chunkOut = [done |-> TRUE, out |-> batches]

\* main() has built the groups (ws: null, backoff: 1000) and started none
Init ==
    /\ InitTrackerVars
    /\ InitChunkVars
    /\ group = [g \in Groups |-> [ws |-> 0, backoff |-> InitialBackoff]]
    /\ sockets = [g \in Groups |-> [i \in Slots |-> "FREE"]]
    /\ sleeps = [g \in Groups |-> <<>>]
    /\ mainPc = "loop"
    /\ mainIdx = 1
    /\ mainTimer = 0
    /\ hkTimer = -1
    /\ closes = [g \in Groups |-> 0]
    /\ lastWait = [g \in Groups |-> 0]

(***************************************************************************)
(* Window Alert Tracker.                                                   *)
(***************************************************************************)
\* the alert of handleKlineEvent: symbol, direction, current, changePct
Alert(key, symbol, current, pct) ==
    [key |-> key, symbol |-> symbol, direction |-> Direction(pct),
     current |-> current, pct |-> pct, text |-> formatPct(pct)]

\* handleKlineEvent(ev), with the history it leaves
handleKlineEvent(ev) ==
    LET symbol == ev.s
        start == ev.t
        open == Number(ev.oc[1])
        current == Number(ev.oc[2])
        pct == changePct(open, current)
        key == CandleKey(symbol, start)
        \* past both early returns
        live == /\ ~Rejected(open, current)
                /\ ~AlreadyAlerted(alertedThisCandle, key)
        fires == live /\ CrossesThreshold(pct)
        marked == IF fires THEN alertedThisCandle \cup {key}
                  ELSE alertedThisCandle
    IN  /\ alertedThisCandle' = marked
        /\ sent' = IF fires THEN Alert(key, symbol, current, pct) ELSE NoAlert
        /\ inflight' = IF fires THEN Min(inflight + 1, MaxInflight)
                       ELSE inflight
        /\ removals' = IF live /\ ev.x
                       THEN [removals EXCEPT ![key] = Append(@, RemovalDelay)]
                       ELSE removals
        /\ alertsThisEntry' =
               IF fires /\ key = watched THEN Inc(alertsThisEntry)
               ELSE alertsThisEntry
        /\ alertsTotal' =
               IF fires /\ key = watched THEN Inc(alertsTotal)
               ELSE alertsTotal
        /\ closedSeen' = (closedSeen \/ (ev.x /\ key = watched))
        /\ blockedFor' = IF ev.x /\ key = watched /\ key \in marked
                         THEN TenMinutes
                         ELSE blockedFor
        /\ blockedFirst' = IF /\ ev.x /\ key = watched /\ key \in marked
                              /\ removals[key] = <<>>
                           THEN TenMinutes
                           ELSE blockedFirst
        /\ UNCHANGED <<otherEntries, wiped, watched>>

\* ws.onmessage on an open socket of group g
OnMessage(g, i, msg) ==
    /\ sockets[g][i] = "OPEN"
    /\ \/ /\ msg.kind \in {"unparsable", "nok"}
          \* JSON.parse throws, or handleKlineEvent throws reading k.t of a
          \* payload without k: caught and logged
          /\ console' = "parse error"
          /\ sent' = NoAlert
          /\ UNCHANGED <<trackerVars, trackerHist>>
       \/ /\ msg.kind = "nodata"
          /\ console' = NoLog
          /\ sent' = NoAlert
          /\ UNCHANGED <<trackerVars, trackerHist>>
       \/ /\ msg.kind = "kline"
          /\ msg.ev.x => PendingRemovals < MaxTimers
          /\ console' = NoLog
          /\ handleKlineEvent(msg.ev)
    /\ UNCHANGED <<groupVars, groupHist, mainVars, hkTimer, chunkVars>>

\* SizeCeiling - 1 qualifying updates in a row on an open socket, each for a
\* key of its own outside Keys whose window stays open: each fires
OnMessageBurst(g, i) ==
    /\ sockets[g][i] = "OPEN"
    /\ otherEntries = 0
    /\ otherEntries' = SizeCeiling - 1
    /\ sent' = Alert(<<"OTHER", 0>>, "OTHER", Num(PERCENT_THRESHOLD),
                      [num |-> PERCENT_THRESHOLD, den |-> 1])
    /\ inflight' = MaxInflight
    /\ console' = NoLog
    /\ UNCHANGED <<alertedThisCandle, removals, trackerHist, groupVars,
                   groupHist, mainVars, hkTimer, chunkVars>>

\* the callback of setTimeout(() => alertedThisCandle.delete(key), ...)
RemovalFireClears(k) ==
    /\ removals[k] # <<>>
    /\ Head(removals[k]) = 0
    /\ removals' = [removals EXCEPT ![k] = Tail(@)]
    /\ alertedThisCandle' = {}
    /\ alertsThisEntry' = 0
    /\ sent' = NoAlert
    /\ console' = NoLog
    /\ UNCHANGED <<otherEntries, inflight, watched, alertsTotal, closedSeen,
                   wiped, blockedFor, blockedFirst, groupVars, groupHist,
                   mainVars, hkTimer, chunkVars>>
RemovalFire(k) ==
    /\ removals[k] # <<>>
    /\ Head(removals[k]) = 0
    /\ removals' = [removals EXCEPT ![k] = Tail(@)]
    /\ alertedThisCandle' = alertedThisCandle \ {k}
    /\ alertsThisEntry' = IF k = watched THEN 0 ELSE alertsThisEntry
    /\ sent' = NoAlert
    /\ console' = NoLog
    /\ UNCHANGED <<otherEntries, inflight, watched, alertsTotal, closedSeen,
                   wiped, blockedFor, blockedFirst, groupVars, groupHist,
                   mainVars, hkTimer, chunkVars>>

\* a sendTelegram(msg) started by handleKlineEvent settles: it returns, after
\* logging a response that is not ok, or its fetch rejects and
\* .catch(console.error) logs the error
DeliverySettlesResets(outcome) ==
    /\ inflight > 0
    /\ inflight' \in IF inflight = MaxInflight
                     THEN {MaxInflight - 1, MaxInflight}
                     ELSE {inflight - 1}
    /\ console' = CASE outcome = "not ok" -> "Telegram sendMessage failed"
                    [] outcome = "throws" -> "fetch failed"
                    [] OTHER -> NoLog
    /\ sent' = NoAlert
    /\ alertedThisCandle' = IF outcome = "ok" THEN alertedThisCandle ELSE {}
    /\ UNCHANGED <<otherEntries, removals, trackerHist, groupVars,
                   groupHist, mainVars, hkTimer, chunkVars>>
DeliverySettles(outcome) ==
    /\ inflight > 0
    /\ inflight' \in IF inflight = MaxInflight
                     THEN {MaxInflight - 1, MaxInflight}
                     ELSE {inflight - 1}
    /\ console' = CASE outcome = "not ok" -> "Telegram sendMessage failed"
                    [] outcome = "throws" -> "fetch failed"
                    [] OTHER -> NoLog
    /\ sent' = NoAlert
    /\ UNCHANGED <<alertedThisCandle, otherEntries, removals, trackerHist,
                   groupVars, groupHist, mainVars, hkTimer, chunkVars>>

\* the test of the housekeeping tick: alertedThisCandle.size > 20000
OverCeilingInclusive(size) == size >= SizeCeiling
OverCeiling(size) == size > SizeCeiling

\* the callback of main's setInterval
HousekeepingTick ==
    /\ hkTimer = 0
    /\ hkTimer' = HousekeepingInterval
    /\ IF OverCeiling(MapSize)
       THEN /\ alertedThisCandle' = {}
            /\ otherEntries' = 0
            /\ alertsThisEntry' = 0
            /\ wiped' = (wiped \/ watched \in alertedThisCandle)
            /\ blockedFor' = 0
            /\ blockedFirst' = 0
       ELSE UNCHANGED <<alertedThisCandle, otherEntries, alertsThisEntry,
                        wiped, blockedFor, blockedFirst>>
    /\ sent' = NoAlert
    /\ console' = NoLog
    /\ UNCHANGED <<removals, inflight, watched, alertsTotal, closedSeen,
                   groupVars, groupHist, mainVars, chunkVars>>

(***************************************************************************)
(* Connection groups.                                                      *)
(***************************************************************************)
\* connect(): a new WebSocket, and group.ws = ws.  A closed socket stays
\* in its slot only while group.ws refers to it.
connect(g, grp, socks) ==
    LET released == [i \in Slots |->
                        IF socks[i] = "CLOSED" THEN "FREE" ELSE socks[i]]
        slot == CHOOSE i \in Slots :
                    /\ released[i] = "FREE"
                    /\ \A j \in Slots : released[j] = "FREE" => i <= j
    IN  /\ \E i \in Slots : released[i] = "FREE"
        /\ sockets' = [sockets EXCEPT ![g] =
                          [released EXCEPT ![slot] = "CONNECTING"]]
        /\ group' = [group EXCEPT ![g] = [grp EXCEPT !.ws = slot]]

\* ws.onopen
OnOpenNoReset(g, i) ==
    /\ sockets[g][i] = "CONNECTING"
    /\ sockets' = [sockets EXCEPT ![g][i] = "OPEN"]
    /\ closes' = [closes EXCEPT ![g] = 0]
    /\ console' = "connected"
    /\ sent' = NoAlert
    /\ UNCHANGED <<group, sleeps, lastWait, trackerVars, trackerHist,
                   mainVars, hkTimer, chunkVars>>
OnOpenResetsAll(g, i) ==
    /\ sockets[g][i] = "CONNECTING"
    /\ sockets' = [sockets EXCEPT ![g][i] = "OPEN"]
    /\ group' = [h \in Groups |-> [group[h] EXCEPT !.backoff = OpenBackoff]]
    /\ closes' = [closes EXCEPT ![g] = 0]
    /\ console' = "connected"
    /\ sent' = NoAlert
    /\ UNCHANGED <<sleeps, lastWait, trackerVars, trackerHist, mainVars,
                   hkTimer, chunkVars>>
OnOpen(g, i) ==
    /\ sockets[g][i] = "CONNECTING"
    /\ sockets' = [sockets EXCEPT ![g][i] = "OPEN"]
    /\ group' = [group EXCEPT ![g].backoff = OpenBackoff]
    /\ closes' = [closes EXCEPT ![g] = 0]
    /\ console' = "connected"
    /\ sent' = NoAlert
    /\ UNCHANGED <<sleeps, lastWait, trackerVars, trackerHist, mainVars,
                   hkTimer, chunkVars>>

\* ws.onerror
OnErrorReconnects(g, i) ==
    /\ sockets[g][i] \in {"CONNECTING", "OPEN"}
    /\ sleeps' = [sleeps EXCEPT ![g] = Append(@, group[g].backoff)]
    /\ console' = "error"
    /\ sent' = NoAlert
    /\ UNCHANGED <<group, sockets, groupHist, trackerVars, trackerHist,
                   mainVars, hkTimer, chunkVars>>
OnError(g, i) ==
    /\ sockets[g][i] \in {"CONNECTING", "OPEN"}
    /\ console' = "error"
    /\ sent' = NoAlert
    /\ UNCHANGED <<groupVars, groupHist, trackerVars, trackerHist, mainVars,
                   hkTimer, chunkVars>>

\* ws.onclose, up to its await: sleep(group.backoff) is started
OnClose(g, i) ==
    /\ sockets[g][i] \in {"CONNECTING", "OPEN"}
    /\ closes[g] < MaxCloses
    /\ sockets' = [sockets EXCEPT ![g][i] =
                      IF group[g].ws = i THEN "CLOSED" ELSE "FREE"]
    /\ sleeps' = [sleeps EXCEPT ![g] = Append(@, group[g].backoff)]
    /\ closes' = [closes EXCEPT ![g] = @ + 1]
    /\ lastWait' = [lastWait EXCEPT ![g] = group[g].backoff]
    /\ console' = "closed -> reconnecting..."
    /\ sent' = NoAlert
    /\ UNCHANGED <<group, trackerVars, trackerHist, mainVars, hkTimer,
                   chunkVars>>

\* ws.onclose after its await: the backoff doubles, then connect()
ReconnectGivesUp(g, j) ==
    /\ j \in 1..Len(sleeps[g])
    /\ sleeps[g][j] = 0
    /\ sleeps' = [sleeps EXCEPT ![g] = RemoveAt(@, j)]
    /\ IF group[g].backoff < BackoffCeiling
       THEN connect(g, [group[g] EXCEPT !.backoff = NextBackoff(@)],
                    sockets[g])
       ELSE UNCHANGED <<group, sockets>>
    /\ console' = NoLog
    /\ sent' = NoAlert
    /\ UNCHANGED <<groupHist, trackerVars, trackerHist, mainVars, hkTimer,
                   chunkVars>>
Reconnect(g, j) ==
    /\ j \in 1..Len(sleeps[g])
    /\ sleeps[g][j] = 0
    /\ sleeps' = [sleeps EXCEPT ![g] = RemoveAt(@, j)]
    /\ connect(g, [group[g] EXCEPT !.backoff = NextBackoff(@)], sockets[g])
    /\ console' = NoLog
    /\ sent' = NoAlert
    /\ UNCHANGED <<groupHist, trackerVars, trackerHist, mainVars, hkTimer,
                   chunkVars>>

(***************************************************************************)
(* main(): start the groups one by one, 250 ms apart, then setInterval.    *)
(***************************************************************************)
\* the body of the for loop up to its sleep: startGroup(g) calls connect()
MainStartGroup ==
    /\ mainPc = "loop"
    /\ mainIdx \in Groups
    /\ connect(mainIdx, group[mainIdx], sockets[mainIdx])
    /\ mainPc' = "sleep"
    /\ mainTimer' = StaggerDelay
    /\ console' = NoLog
    /\ sent' = NoAlert
    /\ UNCHANGED <<mainIdx, sleeps, groupHist, trackerVars, trackerHist,
                   hkTimer, chunkVars>>

\* sleep(250) is over: on to the next group
MainWake ==
    /\ mainPc = "sleep"
    /\ mainTimer = 0
    /\ mainPc' = "loop"
    /\ mainIdx' = mainIdx + 1
    /\ console' = NoLog
    /\ sent' = NoAlert
    /\ UNCHANGED <<mainTimer, groupVars, groupHist, trackerVars, trackerHist,
                   hkTimer, chunkVars>>

\* after the loop: setInterval(..., 10 * 60 * 1000)
MainSetInterval ==
    /\ mainPc = "loop"
    /\ mainIdx \notin Groups
    /\ mainPc' = "running"
    /\ hkTimer' = HousekeepingInterval
    /\ console' = NoLog
    /\ sent' = NoAlert
    /\ UNCHANGED <<mainIdx, mainTimer, groupVars, groupHist, trackerVars,
                   trackerHist, chunkVars>>

(***************************************************************************)
(* Startup: the credential check at module load, then main() up to its     *)
(* loop, and the handler of main().catch.                                  *)
(***************************************************************************)
\* what process.env holds for a credential: nothing, or a value
EnvValues == {"", "set"}

\* if (!TELEGRAM_BOT_TOKEN || !TELEGRAM_CHAT_ID) process.exit(1), else on to
\* main(), which awaits fetchSpotUSDT()
CredentialCheck(token, chatId) ==
    /\ mainPc = "boot"
    /\ IF token = "" \/ chatId = ""
       THEN /\ console' = "Missing TELEGRAM_BOT_TOKEN or TELEGRAM_CHAT_ID"
            /\ mainPc' = "exit1"
       ELSE /\ console' = NoLog
            /\ mainPc' = "fetch"
    /\ sent' = NoAlert
    /\ UNCHANGED <<mainIdx, mainTimer, groupVars, groupHist, trackerVars,
                   trackerHist, hkTimer, chunkVars>>

\* fetchSpotUSDT() settles: main goes on to build and start its groups, or
\* it rejects and the handler of main().catch logs and calls sendTelegram
FetchSettles(ok) ==
    /\ mainPc = "fetch"
    /\ IF ok
       THEN /\ console' = NoLog
            /\ mainPc' = "loop"
       ELSE /\ console' = "Fatal"
            /\ mainPc' = "notify"
    /\ sent' = NoAlert
    /\ UNCHANGED <<mainIdx, mainTimer, groupVars, groupHist, trackerVars,
                   trackerHist, hkTimer, chunkVars>>

\* await sendTelegram("Bot crashed ...") settles in the handler of
\* main().catch: sendTelegram returns (after logging a response that is not
\* ok) and process.exit(1) runs, or its fetch rejects, the await throws and
\* the handler ends there, its promise rejected
CrashNotifySettles(outcome) ==
    /\ mainPc = "notify"
    /\ console' = IF outcome = "not ok" THEN "Telegram sendMessage failed"
                  ELSE NoLog
    /\ mainPc' = IF outcome = "throws" THEN "rejected" ELSE "exit1"
    /\ sent' = NoAlert
    /\ UNCHANGED <<mainIdx, mainTimer, groupVars, groupHist, trackerVars,
                   trackerHist, hkTimer, chunkVars>>

(***************************************************************************)
(* Time.                                                                   *)
(***************************************************************************)
SomeTimerRunning ==
    \/ mainPc = "sleep" /\ mainTimer > 0
    \/ hkTimer > 0
    \/ \E k \in Keys : \E j \in 1..Len(removals[k]) : removals[k][j] > 0
    \/ \E g \in Groups : \E j \in 1..Len(sleeps[g]) : sleeps[g][j] > 0
    \/ blockedFor > 0

ElapseSeq(seq, d) == [j \in 1..Len(seq) |-> Dec(seq[j], d)]

Elapse(d) ==
    /\ SomeTimerRunning
    /\ removals' = [k \in Keys |-> ElapseSeq(removals[k], d)]
    /\ sleeps' = [g \in Groups |-> ElapseSeq(sleeps[g], d)]
    /\ mainTimer' = Dec(mainTimer, d)
    /\ hkTimer' = IF hkTimer < 0 THEN hkTimer ELSE Dec(hkTimer, d)
    /\ blockedFor' = Dec(blockedFor, d)
    /\ blockedFirst' = Dec(blockedFirst, d)
    /\ console' = NoLog
    /\ sent' = NoAlert
    /\ UNCHANGED <<alertedThisCandle, otherEntries, inflight, watched,
                   alertsThisEntry, alertsTotal, closedSeen, wiped, group,
                   sockets, mainPc, mainIdx, groupHist, chunkVars>>

(***************************************************************************)
(* The partitioner on its own: any list, any batch size >= 1.              *)
(***************************************************************************)
ChunkSymbols == {"A", "B", "C"}
ChunkLists == UNION { [1..n -> ChunkSymbols] : n \in 0..MaxLen }

ChunkCall ==
    /\ ~chunkOut.done
    /\ chunkOut' = [done |-> TRUE, out |-> chunk(chunkIn.arr, chunkIn.size)]
    /\ UNCHANGED <<chunkIn, trackerVars, trackerHist, sent, console,
                   groupVars, groupHist, mainVars, hkTimer>>

(***************************************************************************)
(* Specifications.  Spec is the whole program.  Its handlers fall in two   *)
(* sets that share no variable they write: those of the tracker (the Map,  *)
(* its timers, the housekeeping tick) and those of the groups and main.    *)
(* SpecTracker runs the first set from the state in which main has         *)
(* started every group and every socket is open; SpecGroups runs the       *)
(* second set, with every frame that does not reach handleKlineEvent.      *)
(***************************************************************************)
ControlMessages == { m \in Messages : m.kind # "kline" }

\* every group connected, the housekeeping interval just set
InitTracker ==
    /\ InitTrackerVars
    /\ InitChunkVars
    /\ group = [g \in Groups |-> [ws |-> 1, backoff |-> OpenBackoff]]
    /\ sockets = [g \in Groups |->
                     [i \in Slots |-> IF i = 1 THEN "OPEN" ELSE "FREE"]]
    /\ sleeps = [g \in Groups |-> <<>>]
    /\ mainPc = "running"
    /\ mainIdx = Len(batches) + 1
    /\ mainTimer = 0
    /\ hkTimer = HousekeepingInterval
    /\ closes = [g \in Groups |-> 0]
    /\ lastWait = [g \in Groups |-> 0]

InitChunk ==
    /\ InitTrackerVars
    /\ chunkIn \in [arr : ChunkLists, size : 1..MaxBatch]
    /\ chunkOut = [done |-> FALSE, out |-> <<>>]
    /\ group = [g \in Groups |-> [ws |-> 0, backoff |-> InitialBackoff]]
    /\ sockets = [g \in Groups |-> [i \in Slots |-> "FREE"]]
    /\ sleeps = [g \in Groups |-> <<>>]
    /\ mainPc = "loop"
    /\ mainIdx = 1
    /\ mainTimer = 0
    /\ hkTimer = -1
    /\ closes = [g \in Groups |-> 0]
    /\ lastWait = [g \in Groups |-> 0]

NextTracker ==
    \/ \E g \in Groups, i \in Slots, msg \in Messages : OnMessage(g, i, msg)
    \/ \E g \in Groups, i \in Slots : OnMessageBurst(g, i)
    \/ \E k \in Keys : RemovalFire(k)
    \/ HousekeepingTick
    \/ Elapse(TimeStep)

NextGroups ==
    \/ \E g \in Groups, i \in Slots, msg \in ControlMessages :
           OnMessage(g, i, msg)
    \/ \E g \in Groups, i \in Slots : OnOpen(g, i)
    \/ \E g \in Groups, i \in Slots : OnError(g, i)
    \/ \E g \in Groups, i \in Slots : OnClose(g, i)
    \/ \E g \in Groups, j \in Slots : Reconnect(g, j)
    \/ MainStartGroup
    \/ MainWake
    \/ MainSetInterval
    \/ HousekeepingTick
    \/ Elapse(TimeStep)

NextStartup ==
    \/ \E token \in EnvValues, chatId \in EnvValues :
           CredentialCheck(token, chatId)
    \/ \E ok \in BOOLEAN : FetchSettles(ok)
    \/ \E outcome \in FetchOutcomes : CrashNotifySettles(outcome)
    \/ NextGroups

\* kline frames of windows that are still open
OpenWindowMessages == { m \in Messages : m.kind = "kline" /\ ~m.ev.x }

\* main's startup with sockets that open and stay open, updates of open
\* windows, and the housekeeping tick
NextHousekeeping ==
    \/ MainStartGroup
    \/ MainWake
    \/ MainSetInterval
    \/ \E g \in Groups, i \in Slots : OnOpen(g, i)
    \/ \E g \in Groups, i \in Slots, msg \in OpenWindowMessages :
           OnMessage(g, i, msg)
    \/ \E g \in Groups, i \in Slots : OnMessageBurst(g, i)
    \/ HousekeepingTick
    \/ Elapse(TimeStep)

\* the updates, the removal timers and the deliveries of the alerts
NextDelivery ==
    \/ \E outcome \in FetchOutcomes : DeliverySettles(outcome)
    \/ \E g \in Groups, i \in Slots, msg \in Messages : OnMessage(g, i, msg)
    \/ \E k \in Keys : RemovalFire(k)
    \/ Elapse(TimeStep)

Next == NextDelivery \/ NextTracker \/ NextGroups

Spec == Init /\ [][Next]_vars
SpecTracker == InitTracker /\ [][NextTracker]_vars
SpecGroups == Init /\ [][NextGroups]_vars
SpecChunk == InitChunk /\ [][ChunkCall]_vars
SpecHousekeeping == Init /\ [][NextHousekeeping]_vars
SpecDelivery == InitTracker /\ [][NextDelivery]_vars

\* the program from the load of the module
InitStartup ==
    /\ InitTrackerVars
    /\ InitChunkVars
    /\ group = [g \in Groups |-> [ws |-> 0, backoff |-> InitialBackoff]]
    /\ sockets = [g \in Groups |-> [i \in Slots |-> "FREE"]]
    /\ sleeps = [g \in Groups |-> <<>>]
    /\ mainPc = "boot"
    /\ mainIdx = 1
    /\ mainTimer = 0
    /\ hkTimer = -1
    /\ closes = [g \in Groups |-> 0]
    /\ lastWait = [g \in Groups |-> 0]

SpecStartup == InitStartup /\ [][NextStartup]_vars

\* a fetch that was started settles
SpecStartupFair ==
    /\ SpecStartup
    /\ WF_vars(\E ok \in BOOLEAN : FetchSettles(ok))
    /\ WF_vars(\E outcome \in FetchOutcomes : CrashNotifySettles(outcome))

\* the timers of the event loop run: time passes, and a sleep that is over
\* resumes its onclose
SpecGroupsFair ==
    /\ SpecGroups
    /\ WF_vars(Elapse(TimeStep))
    /\ \A g \in Groups : \A j \in Slots : WF_vars(Reconnect(g, j))

(***************************************************************************)
(* The claims.                                                             *)
(***************************************************************************)
Last(seq) == seq[Len(seq)]
KlineMsg(e) == [kind |-> "kline", ev |-> e]
\* the price a string stands for is a strictly positive number
Positive(str) == ~Number(str).nan /\ Number(str).v > 0

\* C1: whatever the interleaving of updates, removal timers and housekeeping
\* ticks, a key gets at most one alert between the creation of its registry
\* entry and the removal of that entry (by its timer or by a clear()).
C1_OneAlertPerEntry == alertsThisEntry <= 1

\* the key was alerted, its entry removed, and it was alerted again
C1_Witness ==
    /\ alertsTotal = 2
    /\ alertsThisEntry = 1
    /\ watched \in alertedThisCandle

\* C2, as stated: while no window-closed update for a key has been observed,
\* the key gets at most one alert, whatever else runs in between,
\* housekeeping ticks included.
C2_OneAlertBeforeClose == ~closedSeen => alertsTotal <= 1

\* C2, amended: while no window-closed update for a key has been observed
\* and no housekeeping tick has cleared the registry while it held the key,
\* the key gets at most one alert.
C2_OneAlertBeforeCloseOrClear == (~closedSeen /\ ~wiped) => alertsTotal <= 1

\* one alert for the key, its window still open, while the other key has a
\* removal pending and the registry holds SizeCeiling entries in all
C2_Witness ==
    /\ ~closedSeen /\ ~wiped
    /\ alertsTotal = 1
    /\ watched \in alertedThisCandle
    /\ MapSize = SizeCeiling
    /\ \E k \in Keys \ {watched} : removals[k] # <<>>

C4_BlockedTenMinutes == [][blockedFor > 0 => sent'.key # watched]_vars

\* C4, amended: during the 10 minutes that follow a window-closed update
\* that found no removal of its key pending and left the key marked, no
\* alert for that key is emitted (unless the registry is cleared).  A later
\* window-closed update does not extend the block.
C4_BlockedAfterFirstClose == [][blockedFirst > 0 => sent'.key # watched]_vars

\* five minutes after the window closed a duplicate of the window-closed
\* update has arrived, and the key is still marked
C4_Witness ==
    /\ blockedFirst = TenMinutes - TimeStep
    /\ blockedFor = TenMinutes
    /\ watched \in alertedThisCandle
    /\ alertsTotal = 1

\* C5: the k-th close in a row without an open waits
\* min(1000 * 2^(k-1), 30000) ms, and a group's backoff stays within
\* 1000..30000.
C5_BackoffProgression ==
    \A g \in Groups :
        /\ group[g].backoff >= 1000
        /\ group[g].backoff <= 30000
        /\ closes[g] >= 1 =>
               lastWait[g] = Min(1000 * 2 ^ (closes[g] - 1), 30000)

\* the sixth close in a row waits at the ceiling, and so does the seventh
C5_Witness ==
    \E g \in Groups :
        /\ closes[g] = 7
        /\ lastWait[g] = 30000
        /\ sleeps[g] # <<>>

\* C6: an open sets the group's backoff to 1000 ms, whatever it was, and the
\* close of an open socket waits exactly 1000 ms.
C6_OpenResetsBackoff ==
    [][\A g \in Groups, i \in Slots :
          /\ (sockets[g][i] = "CONNECTING" /\ sockets'[g][i] = "OPEN")
                 => group'[g].backoff = 1000
          /\ (sockets[g][i] = "OPEN" /\ sockets'[g][i] # "OPEN")
                 => /\ lastWait'[g] = 1000
                    /\ Last(sleeps'[g]) = 1000]_vars

\* a socket that opened after the group had backed off to the ceiling
C6_Witness ==
    \E g \in Groups, i \in Slots :
        /\ sockets[g][i] = "OPEN"
        /\ lastWait[g] = 30000
        /\ group[g].backoff = 1000
        /\ console = "connected"

\* C7: after every close the group gets a new connection attempt, however
\* many closes came before.
C7_AlwaysReconnects ==
    \A g \in Groups :
        (sleeps[g] # <<>>) ~> (\E i \in Slots : sockets[g][i] = "CONNECTING")

\* a new attempt after six failed ones in a row
C7_Witness ==
    \E g \in Groups, i \in Slots :
        /\ closes[g] >= 6
        /\ sockets[g][i] = "CONNECTING"
        /\ sleeps[g] = <<>>

RECURSIVE Concat(_)
Concat(seqs) == IF seqs = <<>> THEN <<>> ELSE Head(seqs) \o Concat(Tail(seqs))
Range(seq) == { seq[j] : j \in 1..Len(seq) }
CeilDiv(a, b) == (a + b - 1) \div b

\* C8: for a list of length L and a batch size B >= 1, chunk returns
\* ceil(L/B) groups, each non-empty and of at most B symbols, whose
\* concatenation is the list; if the list names no symbol twice, no symbol
\* is in two groups.
C8_Partition ==
    chunkOut.done =>
        LET arr == chunkIn.arr
            B == chunkIn.size
            out == chunkOut.out
        IN  /\ Len(out) = CeilDiv(Len(arr), B)
            /\ \A n \in 1..Len(out) : Len(out[n]) >= 1 /\ Len(out[n]) <= B
            /\ Concat(out) = arr
            /\ Cardinality(Range(arr)) = Len(arr) =>
                   \A m, n \in 1..Len(out) :
                       m # n => Range(out[m]) \cap Range(out[n]) = {}

\* four symbols in batches of three: a full group and a partial one
C8_Witness ==
    /\ chunkOut.done
    /\ Len(chunkIn.arr) = 4
    /\ chunkIn.size = 3
    /\ Len(chunkOut.out) = 2
    /\ Len(chunkOut.out[2]) = 1

\* C9, as stated: an update whose open or current price is not a strictly
\* positive number emits no alert, marks nothing and schedules no removal.
C9_NonPositiveIsNoOp ==
    [][\A e \in KlineEvents :
          ( /\ ~(Positive(e.oc[1]) /\ Positive(e.oc[2]))
            /\ handleKlineEvent(e) )
          => /\ sent' = NoAlert
             /\ UNCHANGED <<alertedThisCandle, otherEntries, removals>>]_vars

\* frames that are unparsable, carry no kline payload, or carry a kline
\* payload that lacks k or s
Malformed ==
    ControlMessages \cup { KlineMsg(e) : e \in { f \in KlineEvents : f.s = Undefined } }

\* C10, as stated: a malformed frame on a connected group emits no alert,
\* leaves the registry alone and leaves the group as it is.
C10_MalformedIsDropped ==
    [][\A g \in Groups, i \in Slots, msg \in Malformed :
          OnMessage(g, i, msg)
          => /\ sent' = NoAlert
             /\ UNCHANGED <<alertedThisCandle, otherEntries, removals>>
             /\ UNCHANGED <<group, sockets, sleeps>>]_vars

\* C11: every alert says "down" exactly when its percent change is negative
\* and "up" otherwise, and its formatted change starts with "-" when the
\* change is negative and with "+" when it is zero or positive; open 100,
\* current 94 gives "down" and -6.00%.
C11_SignAndDirection ==
    /\ sent # NoAlert =>
           /\ (sent.direction = "down") <=> (sent.pct.num < 0)
           /\ (sent.direction = "up") <=> (sent.pct.num >= 0)
           /\ sent.text.sign = IF sent.pct.num < 0 THEN "-" ELSE "+"
           /\ sent.text = formatPct(sent.pct)
           /\ sent.pct = changePct(Number("100"), Number("94")) =>
                  /\ sent.direction = "down"
                  /\ sent.text = [sign |-> "-", hundredths |-> 600]
    /\ LET zero == changePct(Number("100"), Number("100"))
       IN  Direction(zero) = "up" /\ formatPct(zero).sign = "+"

\* the alert for open 100, current 94
C11_Witness ==
    /\ sent.key \in alertedThisCandle
    /\ sent.pct = changePct(Number("100"), Number("94"))
    /\ sent.direction = "down"
    /\ sent.text = [sign |-> "-", hundredths |-> 600]

\* an open, error or close event of group g, or the end of one of its
\* backoff waits
GroupStep(g) ==
    \E i \in Slots :
        OnOpen(g, i) \/ OnError(g, i) \/ OnClose(g, i) \/ Reconnect(g, i)

\* group h's handle and backoff, its sockets, its pending waits
GroupState(h) == <<group[h], sockets[h], sleeps[h]>>

\* C12: a step of one group (open, error, close, end of a backoff wait)
\* leaves every other group's handle, backoff, sockets and pending waits as
\* they were, leaves main's startup loop where it was, and disables no
\* event of another group and no step of main.
C12_GroupsIndependent ==
    [][\A g \in Groups :
          GroupStep(g) =>
              /\ \A h \in Groups \ {g} :
                     /\ GroupState(h)' = GroupState(h)
                     /\ \A i \in Slots :
                            /\ (ENABLED OnOpen(h, i)) => (ENABLED OnOpen(h, i))'
                            /\ (ENABLED OnError(h, i)) => (ENABLED OnError(h, i))'
                            /\ (ENABLED OnClose(h, i)) => (ENABLED OnClose(h, i))'
                            /\ (ENABLED Reconnect(h, i))
                                   => (ENABLED Reconnect(h, i))'
              /\ UNCHANGED <<mainPc, mainIdx, mainTimer, hkTimer>>
              /\ (ENABLED MainStartGroup) => (ENABLED MainStartGroup)'
              /\ (ENABLED MainWake) => (ENABLED MainWake)'
              /\ (ENABLED MainSetInterval) => (ENABLED MainSetInterval)']_vars

\* main is in its sleep after starting the first group, whose socket has
\* already closed and whose backoff wait is pending, while the second group
\* is not started yet
C12_Witness ==
    /\ mainPc = "sleep"
    /\ mainIdx = 1
    /\ sleeps[1] # <<>>
    /\ console = "closed -> reconnecting..."
    /\ group[2].ws = 0

\* C13, as stated: with a credential missing the process exits with code 1
\* before anything else runs, and once fetchSpotUSDT has failed and the
\* crash notification is being attempted the process goes on to exit with
\* code 1, however the notification ends.
C13_StartupFailureExits ==
    /\ [][mainPc = "boot" /\ mainPc' # "fetch" => mainPc' = "exit1"]_vars
    /\ (mainPc = "notify") ~> (mainPc = "exit1")

\* C14, as stated: every window-closed update with strictly positive prices
\* schedules the removal of its key 10 minutes later, whether or not it
\* fired an alert and whether or not the key was already marked.
C14_CloseSchedulesRemoval ==
    [][\A e \in KlineEvents :
          LET key == CandleKey(e.s, e.t)
          IN  ( /\ e.x
                /\ Positive(e.oc[1]) /\ Positive(e.oc[2])
                /\ handleKlineEvent(e) )
              => removals'[key] = Append(removals[key], TenMinutes)]_vars

\* C15: the housekeeping interval is set only once every group has been
\* started, with a period of 10 minutes; a tick empties the registry when
\* it holds more than 20,000 entries and leaves it as it is when it holds
\* 20,000 or fewer; a tick emits no alert and changes no group.
C15_HousekeepingTick ==
    /\ [](hkTimer >= 0 => \A g \in Groups : group[g].ws # 0)
    /\ [][hkTimer' # hkTimer /\ hkTimer <= 0 => hkTimer' = TenMinutes]_vars
    /\ [][HousekeepingTick =>
              /\ IF MapSize > 20000
                 THEN alertedThisCandle' = {} /\ otherEntries' = 0
                 ELSE UNCHANGED <<alertedThisCandle, otherEntries>>
              /\ sent' = NoAlert
              /\ UNCHANGED <<group, sockets, sleeps>>]_vars

\* a tick has just emptied a registry that held the watched key
C15_Witness ==
    /\ wiped
    /\ MapSize = 0
    /\ hkTimer = TenMinutes
    /\ alertsTotal >= 1
    /\ \A g \in Groups : \E i \in Slots : sockets[g][i] = "OPEN"

\* C16: a key leaves the registry only in the callback of a removal
\* scheduled for that key or in a housekeeping tick that clears the
\* registry; a removal is pending for a key only after a window-closed
\* update for it; so a key that was alerted and for which no window-closed
\* update was observed stays in the registry, and gets no further alert,
\* until a clear removes it.
C16_StaysUntilClear ==
    /\ [][\A k \in Keys :
              (k \in alertedThisCandle /\ k \notin alertedThisCandle')
                  => \/ RemovalFire(k)
                     \/ HousekeepingTick /\ MapSize > 20000]_vars
    /\ [](~closedSeen => removals[watched] = <<>>)
    /\ []((~closedSeen /\ ~wiped /\ alertsTotal >= 1)
              => watched \in alertedThisCandle)
    /\ [][(~closedSeen' /\ ~wiped' /\ alertsTotal >= 1)
              => sent'.key # watched]_vars

\* ten minutes on, the key alerted in a window that has not closed is still
\* in a registry of 20,000 entries, which the coming tick will not clear
C16_Witness ==
    /\ ~closedSeen /\ ~wiped
    /\ alertsTotal = 1
    /\ watched \in alertedThisCandle
    /\ hkTimer = 0
    /\ MapSize = 20000
    /\ \A k \in Keys : removals[k] = <<>>

\* C17: an error event leaves the group's handle, backoff, sockets and
\* pending waits as they were; a backoff wait is started only by a close
\* event of the group, and a new socket is created only at the end of such
\* a wait or by main's startGroup.
C17_ErrorStartsNothing ==
    [][\A g \in Groups :
          /\ (\E i \in Slots : OnError(g, i))
                 => GroupState(g)' = GroupState(g)
          /\ Len(sleeps'[g]) > Len(sleeps[g])
                 => \E i \in Slots : OnClose(g, i)
          /\ (\E i \in Slots : /\ sockets[g][i] # "CONNECTING"
                                /\ sockets'[g][i] = "CONNECTING")
                 => \/ \E j \in Slots : Reconnect(g, j)
                    \/ MainStartGroup /\ mainIdx = g]_vars

\* an error was just logged on a connected group, which has no wait pending
C17_Witness ==
    /\ console = "error"
    /\ \E g \in Groups :
           /\ \E i \in Slots : sockets[g][i] = "OPEN"
           /\ sleeps[g] = <<>>
           /\ group[g].backoff = 1000
           /\ group[g].ws # 0

\* C18: the key of an alert is in the registry in the state in which its
\* delivery is started, and handling the update raises nothing; however a
\* delivery settles (response ok, response not ok, rejection), the step
\* leaves the registry, its timers and the groups as they were and sends
\* nothing, so there is no retry and no second alert for the entry.
C18_DeliveryOutcomeIgnored ==
    /\ [][(sent' # NoAlert /\ sent'.key \in Keys)
              => /\ sent'.key \in alertedThisCandle'
                 /\ inflight' >= 1
                 /\ console' = NoLog]_vars
    /\ [][\A outcome \in FetchOutcomes :
              DeliverySettles(outcome)
                  => /\ sent' = NoAlert
                     /\ UNCHANGED <<alertedThisCandle, otherEntries, removals>>
                     /\ UNCHANGED <<group, sockets, sleeps>>]_vars
    /\ [](alertsThisEntry <= 1)

\* the only delivery in flight has just failed with a response that is not
\* ok; the key it was for is still marked and has had its one alert
C18_Witness ==
    /\ console = "Telegram sendMessage failed"
    /\ inflight = 0
    /\ watched \in alertedThisCandle
    /\ alertedThisCandle = {watched}
    /\ alertsTotal = 1

\* the sockets of group g that are connecting or connected
Live(g) == { i \in Slots : sockets[g][i] \in {"CONNECTING", "OPEN"} }

\* C19, as stated: a group's handle is null whenever the group has no
\* socket that is connecting or connected: before main starts it, and
\* during every backoff wait after a close.
C19_HandleNullWhenDisconnected ==
    \A g \in Groups : Live(g) = {} => group[g].ws = 0

\* C20: a group never has more than one socket that is connecting or
\* connected, never more than one backoff wait pending, and never a socket
\* and a wait at once; once started it always has exactly one of the two.
C20_OneConnectionOrOneWait ==
    \A g \in Groups :
        /\ Cardinality(Live(g)) + Len(sleeps[g]) <= 1
        /\ group[g].ws # 0 => Cardinality(Live(g)) + Len(sleeps[g]) = 1

\* a group in its second backoff wait in a row, its second socket closed,
\* while the other group is connected
C20_Witness ==
    \E g \in Groups, h \in Groups :
        /\ closes[g] = 2
        /\ Len(sleeps[g]) = 1
        /\ Live(g) = {}
        /\ lastWait[g] = 2000
        /\ Cardinality(Live(h)) = 1
        /\ sleeps[h] = <<>>

====
